---- MODULE Spec2Model ----
(***************************************************************************)
(* A model of the chronos timeline layout engine                           *)
(* (packages/chronos/src/lib/timeline-layout.ts): the TimelineLayout       *)
(* constructor, its getters and selectSegmentInRange, together with the    *)
(* caller-owned records array and configuration object that the            *)
(* constructor reads and writes.                                           *)
(*                                                                         *)
(* Numbers.  The layout's arithmetic is over JavaScript numbers.  Every    *)
(* number of a layout (fraction, startAt, endAt, the transform anchor, a   *)
(* position handed to selectSegmentInRange) is kept here as the integer    *)
(* x * den, where den = 2 * (total numRecords) is the layout's unit: with  *)
(* integer configuration values every quotient the code forms is then an   *)
(* integer, so the model computes the exact rational result (IEEE          *)
(* rounding is not modelled).  The one non-number the code produces, NaN   *)
(* from 0 / 0, is the value NaN below and propagates as in JavaScript.     *)
(*                                                                         *)
(* Several specifications share the definitions.  Spec is the timeline     *)
(* component: one layout at a time over the application's records array.   *)
(* CallerSpec is a caller that keeps its configuration objects and its     *)
(* array and constructs several layouts from them; there objects and       *)
(* arrays are held by identity, so that what the constructor writes into   *)
(* shared objects shows.  PositionSpec is one call of a utility of         *)
(* utils/position.ts on arguments drawn from small sets, FunctionSpec one  *)
(* call of groupBy or of a configuration provider.  IdleSpec is the        *)
(* IdleManager service with the browser's timers and clock.                *)
(* InteractionSpec is the component's life cycle with its                  *)
(* InteractionManager: the signals, the pointer events and the calls of    *)
(* the manager's methods.                                                  *)
(*                                                                         *)
(* Time.  A timestamp is an integer tick; YearOf is Date#getFullYear, a    *)
(* monotone map from ticks to calendar years, some of them negative.       *)
(***************************************************************************)
EXTENDS Integers, Sequences, FiniteSets, TLC

VARIABLES
  records,   \* the caller's array of segment objects (NgxChronosTimeline.records)
  layout,    \* the component's TimelineLayout, NoLayout while none is constructed
  query,     \* the last selectSegmentInRange call on the layout and what it returned
  objects,   \* shared configuration: every segment object, an object's id its index
  arrays,    \* shared configuration: every array, a sequence of objects' ids
  configs,   \* shared configuration: the caller's configuration objects
  layouts,   \* shared configuration: the TimelineLayout instances constructed
  outcome,   \* shared configuration: the last call and how it ended
  call,      \* a function applied: its arguments and how the call ended
  idleManager,        \* the IdleManager service: its fields and activity subscriptions
  timeouts,           \* the browser's pending setTimeout timers, oldest first
  now,                \* the browser's clock
  history,            \* when the last activity event was, and onIdle's emissions since
  interactionManager, \* the component's InteractionManager, its signals and subscriptions
  timeline            \* the NgxChronosTimeline component's own state

layoutVars == <<records, layout, query>>

callerVars == <<objects, arrays, configs, layouts, outcome>>

idleVars == <<idleManager, timeouts, now, history>>

interactionVars == <<interactionManager, timeline>>

vars ==
  <<records, layout, query, objects, arrays, configs, layouts, outcome, call,
    idleManager, timeouts, now, history, interactionManager, timeline>>

\* ---------------------------------------------------------------- bounds
MaxSegs == 3            \* longest caller records array
MaxTs == 2              \* latest timestamp tick
MaxNumRecords == 2      \* largest numRecords of one segment
MaxLineSegment == 6     \* the larger of the two line lengths tried
MaxOffset == 1          \* the non-zero start/end offset tried
MaxDelimiterWidth == 2  \* the non-zero delimiter width tried
MaxLabelSpacing == 3    \* the label spacing tried

TicksPerYear == 2      \* ticks in one calendar year
BCETicks == 1          \* ticks before the start of year 0
MinTs == -BCETicks

Timestamps == MinTs..MaxTs
NumRecordsSet == 0..MaxNumRecords
LineSegments == {1, MaxLineSegment}
StartOffsets == {0, MaxOffset}
EndOffsets == {0, MaxOffset}
DelimiterWidths == {0, MaxDelimiterWidth}
LabelSpacings == {MaxLabelSpacing}

\* ---------------------------------------------------------------- numbers
\* NaN, the result of 0 / 0.  It is no number of any layout; JavaScript's
\* comparisons with it are all false (Leq below), its own === included.
NaN == -1000000

IsNaN(x) == x = NaN

Add(a, b) == IF IsNaN(a) \/ IsNaN(b) THEN NaN ELSE a + b

Sub(a, b) == IF IsNaN(a) \/ IsNaN(b) THEN NaN ELSE a - b

\* a * b for two numbers in units of 1/den
Mul(a, b, den) == IF IsNaN(a) \/ IsNaN(b) THEN NaN ELSE (a * b) \div den

\* a / b for two plain integers, in units of 1/den; 0 / 0 is NaN
Div(a, b, den) == IF b = 0 THEN NaN ELSE (a * den) \div b

Leq(a, b) == ~IsNaN(a) /\ ~IsNaN(b) /\ a <= b

\* a lookup mutant: the upper end of the range left out
inRangeHalfOpen(x, min, max) == Leq(min, x) /\ Leq(x, max) /\ x # max

\* a range mutant: the lower end not part of the range
inRangeAboveMin(x, min, max) == Leq(min, x) /\ Leq(x, max) /\ x # min

\* utils/math.ts
inRange(x, min, max) == Leq(min, x) /\ Leq(x, max)

\* ---------------------------------------------------------------- sequences
RECURSIVE Flat(_)
Flat(ss) == IF ss = <<>> THEN <<>> ELSE Head(ss) \o Flat(Tail(ss))

RECURSIVE Reverse(_)
Reverse(s) == IF s = <<>> THEN <<>> ELSE Reverse(Tail(s)) \o <<Head(s)>>

RECURSIVE SumNumRecords(_)
SumNumRecords(s) == IF s = <<>> THEN 0 ELSE Head(s).numRecords + SumNumRecords(Tail(s))

\* ---------------------------------------------------------------- time
Orientations == {"vertical", "horizontal"}

\* new Date(dateLike).getFullYear()
getFullYear(ts) == ts \div TicksPerYear

\* new Date(ts).getTime()
getTime(ts) == ts

groupByYear(segment) == getFullYear(segment.timestamp)

\* ---------------------------------------------------------------- objects
\* The own property keys of a JavaScript object whose keys were created in
\* the order insertionOrder: the array-index keys (canonical non-negative
\* integers, as "2023" is) in ascending numeric order, then every other key
\* (as "-1" is) in creation order.  Object.keys and Object.entries follow it.
IsArrayIndex(k) == k >= 0

RECURSIVE InsertAsc(_, _)
InsertAsc(k, s) ==
  IF s = <<>> THEN <<k>>
  ELSE IF Head(s) <= k THEN <<Head(s)>> \o InsertAsc(k, Tail(s))
  ELSE <<k>> \o s

RECURSIVE SortAsc(_)
SortAsc(s) == IF s = <<>> THEN <<>> ELSE InsertAsc(s[Len(s)], SortAsc(SubSeq(s, 1, Len(s) - 1)))

\* a key order mutant: every key in creation order
OwnPropertyKeysInCreationOrder(insertionOrder) == insertionOrder

OwnPropertyKeys(insertionOrder) ==
  SortAsc(SelectSeq(insertionOrder, IsArrayIndex))
    \o SelectSeq(insertionOrder, LAMBDA k : ~IsArrayIndex(k))

\* the distinct elements of s in the order of their first occurrence
RECURSIVE FirstSeen(_)
FirstSeen(s) ==
  IF s = <<>> THEN <<>>
  ELSE LET init == FirstSeen(SubSeq(s, 1, Len(s) - 1))
           x == s[Len(s)]
       IN IF \E i \in DOMAIN init : init[i] = x THEN init ELSE Append(init, x)

\* a sort mutant: the comparator's operands swapped, oldest first
RECURSIVE InsertByTimeAsc(_, _)
InsertByTimeAsc(x, s) ==
  IF s = <<>> THEN <<x>>
  ELSE IF getTime(x.timestamp) - getTime(Head(s).timestamp) >= 0
       THEN <<Head(s)>> \o InsertByTimeAsc(x, Tail(s))
       ELSE <<x>> \o s

\* a sort mutant: not stable, an item put before the items of its own timestamp
RECURSIVE InsertBeforeEqualTimes(_, _)
InsertBeforeEqualTimes(x, s) ==
  IF s = <<>> THEN <<x>>
  ELSE IF getTime(Head(s).timestamp) - getTime(x.timestamp) > 0
       THEN <<Head(s)>> \o InsertBeforeEqualTimes(x, Tail(s))
       ELSE <<x>> \o s

\* Array.prototype.sort with (a, b) => getTime(b) - getTime(a): stable, newest first
RECURSIVE InsertByTimeDesc(_, _)
InsertByTimeDesc(x, s) ==
  IF s = <<>> THEN <<x>>
  ELSE IF getTime(Head(s).timestamp) - getTime(x.timestamp) >= 0
       THEN <<Head(s)>> \o InsertByTimeDesc(x, Tail(s))
       ELSE <<x>> \o s

RECURSIVE sortByTimeDesc(_)
sortByTimeDesc(input) ==
  IF input = <<>> THEN <<>>
  ELSE InsertByTimeDesc(input[Len(input)], sortByTimeDesc(SubSeq(input, 1, Len(input) - 1)))

\* Array.prototype.sort with (a, b) => parseInt(b[0]) - parseInt(a[0]) on the entries' keys
RECURSIVE InsertKeyDesc(_, _)
InsertKeyDesc(k, s) ==
  IF s = <<>> THEN <<k>>
  ELSE IF Head(s) - k >= 0 THEN <<Head(s)>> \o InsertKeyDesc(k, Tail(s))
  ELSE <<k>> \o s

RECURSIVE sortKeysDesc(_)
sortKeysDesc(s) ==
  IF s = <<>> THEN <<>>
  ELSE InsertKeyDesc(s[Len(s)], sortKeysDesc(SubSeq(s, 1, Len(s) - 1)))

\* The object a grouping loop builds: memo[key].push(x) for each item x of
\* array in turn, keyAt[i] being the key of array[i].  at is the mapping from
\* key to array, keys its Object.keys / Object.entries order.
RECURSIVE ItemsWithKey(_, _, _)
ItemsWithKey(array, keyAt, k) ==
  IF array = <<>> THEN <<>>
  ELSE LET n == Len(array)
           rest == ItemsWithKey(SubSeq(array, 1, n - 1), SubSeq(keyAt, 1, n - 1), k)
       IN IF keyAt[n] = k THEN Append(rest, array[n]) ELSE rest

GroupInto(array, keyAt) ==
  LET created == FirstSeen(keyAt)
  IN [keys |-> OwnPropertyKeys(created),
      at |-> [k \in {created[i] : i \in DOMAIN created} |-> ItemsWithKey(array, keyAt, k)]]

\* groupBy(array, property), property a function from items to keys
groupBy(array, property) == GroupInto(array, [i \in DOMAIN array |-> property[array[i]]])

\* groupAndSortByYear(input): the sorted input (the input array itself, sorted in
\* place) and the 2D array of its year groups, newest year first.
groupAndSortByYear(input) ==
  LET sortedInput == sortByTimeDesc(input)
      groupedData == GroupInto(sortedInput,
                       [i \in DOMAIN sortedInput |-> getFullYear(sortedInput[i].timestamp)])
      entries == sortKeysDesc(groupedData.keys)
  IN [sortedInput |-> sortedInput,
      result |-> [i \in DOMAIN entries |-> groupedData.at[entries[i]]]]

\* ---------------------------------------------------------------- values
\* A JavaScript value as the position utilities may receive one where a
\* number or a point is expected: a number, a string, null, undefined, or an
\* object with its own properties (props, a record of values).
JsNumber(n) == [kind |-> "number", value |-> n]

JsString(s) == [kind |-> "string", value |-> s]

JsNull == [kind |-> "null"]

JsUndefined == [kind |-> "undefined"]

JsObject(props) == [kind |-> "object", props |-> props]

\* value[key]: an own property of an object, undefined on a primitive
GetProperty(value, key) ==
  IF value.kind = "object" /\ key \in DOMAIN value.props
  THEN value.props[key]
  ELSE JsUndefined

\* { ...target, ...source } of two objects given by their own properties
Spread(target, source) ==
  [key \in DOMAIN target \cup DOMAIN source |->
     IF key \in DOMAIN source THEN source[key] ELSE target[key]]

typeof(value) == IF value.kind = "null" THEN "object" ELSE value.kind

\* how a call ends: with a value returned, or with an OrientationError thrown
Returns(value) == [returns |-> value]

OrientationError == [throws |-> "OrientationError"]

Threw(result) == "throws" \in DOMAIN result

\* `${value}` of a number
NumberToString(value) == IF IsNaN(value) THEN "NaN" ELSE ToString(value)

\* ---------------------------------------------------------------- geometry
MathMax(a, b) == IF IsNaN(a) \/ IsNaN(b) THEN NaN ELSE IF a >= b THEN a ELSE b

MathMin(a, b) == IF IsNaN(a) \/ IsNaN(b) THEN NaN ELSE IF a <= b THEN a ELSE b

\* a clamp mutant: the end offset not taken off the total distance
clampToTotalDistance(position, totalDistance, offsetStart, offsetEnd) ==
  MathMin(MathMax(position, offsetStart), totalDistance)

\* utils/position.ts
clamp(position, totalDistance, offsetStart, offsetEnd) ==
  MathMin(MathMax(position, offsetStart), Sub(totalDistance, offsetEnd))

isOrientation(value) == value = "horizontal" \/ value = "vertical"

isArea2d(value) ==
  /\ value.kind \notin {"null", "undefined"}
  /\ typeof(GetProperty(value, "x")) = "number"
  /\ typeof(GetProperty(value, "y")) = "number"

\* a getMainAxisPosition mutant: the orientation validated only for a point
getMainAxisPositionOfPoint(orientation, position) ==
  IF isArea2d(position)
  THEN IF ~isOrientation(orientation) THEN OrientationError
       ELSE Returns(IF orientation = "horizontal"
                    THEN GetProperty(position, "x").value
                    ELSE GetProperty(position, "y").value)
  ELSE IF typeof(position) = "number" THEN Returns(position.value)
  ELSE OrientationError

getMainAxisPosition(orientation, position) ==
  IF ~isOrientation(orientation) THEN OrientationError
  ELSE IF isArea2d(position)
       THEN Returns(IF orientation = "horizontal"
                    THEN GetProperty(position, "x").value
                    ELSE GetProperty(position, "y").value)
  ELSE IF typeof(position) = "number" THEN Returns(position.value)
  ELSE OrientationError

\* obj is a record with the object's own properties, all of them numbers
is3DTranslatable(obj) == DOMAIN obj # {} /\ DOMAIN obj \subseteq {"x", "y", "z"}

\* utils/coercion.ts, for the numbers generateTranslate3dProperty hands it
coerceCssPixelValue(value) == NumberToString(value) \o "px"

\* obj[key] ?? 0
PropertyOrZero(obj, key) == IF key \in DOMAIN obj THEN obj[key] ELSE 0

generateTranslate3dProperty(obj) ==
  IF ~is3DTranslatable(obj) THEN "unset"
  ELSE LET x == coerceCssPixelValue(PropertyOrZero(obj, "x"))
           y == coerceCssPixelValue(PropertyOrZero(obj, "y"))
           z == coerceCssPixelValue(PropertyOrZero(obj, "z"))
       IN "translate3d(" \o x \o ", " \o y \o ", " \o z \o ")"

\* a getTranslate3d mutant: the two axes taken for one another
getTranslate3dCrossAxis(orientation, value) ==
  LET mainAxisPosition == getMainAxisPosition(orientation, value)
  IN IF Threw(mainAxisPosition) THEN mainAxisPosition
     ELSE IF orientation = "horizontal"
          THEN Returns(generateTranslate3dProperty([y |-> mainAxisPosition.returns]))
          ELSE Returns(generateTranslate3dProperty([x |-> mainAxisPosition.returns]))

\* utils/position.ts getTranslate3d: the CSS translate3d(x, y, z) value, or
\* the error getMainAxisPosition throws
getTranslate3d(orientation, value) ==
  LET mainAxisPosition == getMainAxisPosition(orientation, value)
  IN IF Threw(mainAxisPosition) THEN mainAxisPosition
     ELSE IF orientation = "horizontal"
          THEN Returns(generateTranslate3dProperty([x |-> mainAxisPosition.returns]))
          ELSE Returns(generateTranslate3dProperty([y |-> mainAxisPosition.returns]))

\* ---------------------------------------------------------------- TimelineLayout
\* a numRecords mutant: the reduction seeded with 1 instead of 0
numRecordsSeedOne(config) == 1 + SumNumRecords(config.segments)

\* get numRecords: the live sum over the configuration's segments
numRecords(config) == SumNumRecords(config.segments)

\* the unit 1/den in which a layout built from config keeps its numbers
UnitOf(config) == IF numRecords(config) = 0 THEN 2 ELSE 2 * numRecords(config)

maxSpaceAvailable(config, den) ==
  (config.lineSegment - config.startOffset - config.endOffset) * den

delimiterRadius(config, den) == (config.delimiterWidth * den) \div 2

\* a spacing mutant: the configured label spacing, the delimiter radius not taken off
labelSpacingWhole(config, den) == config.labelSpacing * den

labelSpacing(config, den) == config.labelSpacing * den - delimiterRadius(config, den)

\* TimelineLayout.getTranslate3d(startPosition), the private method
TimelineLayout_getTranslate3d(config, startPosition) ==
  getTranslate3d(config.orientation, JsNumber(startPosition))

\* a calcFraction mutant: the share of the segment count, not of the record count
calcFractionOfSegments(config, recordsCount, den) ==
  Div(recordsCount, Len(config.segments), den)

calcFraction(config, recordsCount, den) == Div(recordsCount, numRecords(config), den)

\* a cursor mutant: a gap left between one segment and the next
nextStartAtGap(endAt) == Add(endAt, 1)

\* startAt = endAt: the next segment starts where this one ends
nextStartAt(endAt) == endAt

\* the loop of computeLayout from index i on, startAt being the running cursor
RECURSIVE computeLayoutFrom(_, _, _, _, _)
computeLayoutFrom(config, den, numSegmentGroups, i, startAt) ==
  IF i > Len(config.segments) THEN <<>>
  ELSE LET seg == config.segments[i]
           maxSpace == maxSpaceAvailable(config, den)
                         - delimiterRadius(config, den) * numSegmentGroups
           fraction == calcFraction(config, seg.numRecords, den)
           occupiedSpace == Mul(maxSpace, fraction, den)
           endAt == Add(startAt, occupiedSpace)
           transform == IF seg.isYear /\ i # Len(config.segments)
                        THEN Sub(endAt, labelSpacing(config, den))
                        ELSE Sub(endAt, delimiterRadius(config, den))
       IN <<[timestamp |-> seg.timestamp,
             numRecords |-> seg.numRecords,
             isYear |-> seg.isYear,
             fraction |-> fraction,
             startAt |-> startAt,
             endAt |-> endAt,
             transform |-> TimelineLayout_getTranslate3d(config, transform).returns]>>
          \o computeLayoutFrom(config, den, numSegmentGroups, i + 1, nextStartAt(endAt))

computeLayout(config, den, numSegmentGroups) ==
  computeLayoutFrom(config, den, numSegmentGroups, 1, -delimiterRadius(config, den))

\* property keys are the years' decimal strings, kept here as the numbers
\* themselves: parseInt(year) of String(year) is year
parseInt(year) == year

groupSegmentsByYear(segments) ==
  LET segmentsMap == groupBy(segments,
                       [x \in {segments[i] : i \in DOMAIN segments} |-> groupByYear(x)])
      keys == segmentsMap.keys
  IN Reverse([i \in DOMAIN keys |->
                [first |-> segmentsMap.at[keys[i]][Len(segmentsMap.at[keys[i]])],
                 segments |-> SubSeq(segmentsMap.at[keys[i]], 1, Len(segmentsMap.at[keys[i]]) - 1),
                 year |-> parseInt(keys[i])]])

\* a tagging mutant: the flag flipped, not set
markYearFlipped(seg) == [seg EXCEPT ![Len(seg)].isYear = ~@]

\* seg[seg.length - 1].isYear = true
markYear(seg) == [seg EXCEPT ![Len(seg)].isYear = TRUE]

\* the segments array the constructor stores into config.segments
taggedSegments(input) ==
  LET groups == groupAndSortByYear(input).result
  IN Flat([i \in DOMAIN groups |-> markYear(groups[i])])

\* the caller's array after the constructor ran on it: sorted in place, and
\* the objects that end a year group carry isYear = true (a year group is the
\* subsequence of the sorted array with that year, so its last object is the
\* last object of the sorted array with that year)
sortedAndTaggedInPlace(input) ==
  LET sortedInput == groupAndSortByYear(input).sortedInput
  IN [i \in DOMAIN sortedInput |->
        IF \A j \in DOMAIN sortedInput :
             j > i => getFullYear(sortedInput[j].timestamp) # getFullYear(sortedInput[i].timestamp)
        THEN [sortedInput[i] EXCEPT !.isYear = TRUE]
        ELSE sortedInput[i]]

countIsYear(segments) == Cardinality({i \in DOMAIN segments : segments[i].isYear})

\* new TimelineLayout(config): the layout's fields, config being the caller's
\* object with config.segments the caller's array
TimelineLayout(config) ==
  LET tagged == [config EXCEPT !.segments = taggedSegments(config.segments)]
      numSegmentGroups == countIsYear(tagged.segments)
      den == UnitOf(tagged)
      segments == computeLayout(tagged, den, numSegmentGroups)
  IN [config |-> [tagged EXCEPT !.segments = segments],
      _segments |-> segments,
      _segmentGroups |-> groupSegmentsByYear(segments),
      _numSegmentGroups |-> numSegmentGroups,
      den |-> den]

\* a lookup mutant: the last segment's bound not raised to maxSpaceAvailable
upperBoundAtLastStart(l, index) ==
  IF index = Len(l._segments) THEN l._segments[Len(l._segments)].startAt
  ELSE l._segments[index + 1].startAt

\* selectSegmentInRange(position): the index in _segments of the segment found,
\* 0 for undefined
upperBoundAt(l, index) ==
  IF index = Len(l._segments) THEN maxSpaceAvailable(l.config, l.den)
  ELSE l._segments[index + 1].startAt

selectSegmentInRange(l, position) ==
  LET found == {index \in DOMAIN l._segments :
                  inRange(position, l._segments[index].startAt, upperBoundAt(l, index))}
  IN IF found = {} THEN 0 ELSE CHOOSE index \in found : \A other \in found : index <= other

\* ---------------------------------------------------------------- state machine
NoLayout == [constructed |-> FALSE]

NoQuery == [asked |-> FALSE]

Constructed == layout # NoLayout

\* the caller's own array: the first array there is
CallerArray == 1

NoOutcome == [op |-> "none"]

NoCall == [fn |-> "none"]

\* inactivityTimer while undefined; setTimeout returns positive ids
NoTimer == 0

\* no activity event so far
Never == -1

NoInteractionManager == [constructed |-> FALSE]

NoTimeline == [initialised |-> FALSE]

LayoutIdle ==
  /\ records = <<>>
  /\ layout = NoLayout
  /\ query = NoQuery

CallerIdle ==
  /\ objects = <<>>
  /\ arrays = << <<>> >>
  /\ configs = <<>>
  /\ layouts = <<>>
  /\ outcome = NoOutcome

\* the IdleManager as constructed: not idle, no timer, observe() not called
IdleManagerIdle ==
  /\ idleManager = [idleState |-> FALSE, inactivityTimer |-> NoTimer, subscriptions |-> 0]
  /\ timeouts = <<>>
  /\ now = 0
  /\ history = [lastActivity |-> Never, onIdle |-> 0]

\* no timeline component on the page
InteractionIdle ==
  /\ interactionManager = NoInteractionManager
  /\ timeline = NoTimeline

Init ==
  /\ LayoutIdle
  /\ CallerIdle
  /\ call = NoCall
  /\ IdleManagerIdle
  /\ InteractionIdle

\* The application adds a record to the array it binds to the timeline's
\* records input, while no timeline component is alive.
PushRecord(timestamp, n) ==
  /\ ~Constructed
  /\ Len(records) < MaxSegs
  /\ records' = Append(records, [timestamp |-> timestamp, numRecords |-> n, isYear |-> FALSE])
  /\ UNCHANGED <<layout, query>>
  /\ UNCHANGED <<callerVars, call, idleVars, interactionVars>>

\* NgxChronosTimeline.ngOnInit: new TimelineLayout({... segments: this.records ...}).
\* The constructor sorts and tags the caller's array in place and stores the
\* computed array in the configuration object.
Construct(lineSegment, startOffset, endOffset, delimiterWidth, spacing, orientation) ==
  /\ ~Constructed
  /\ layout' = TimelineLayout([lineSegment |-> lineSegment,
                               segments |-> records,
                               orientation |-> orientation,
                               startOffset |-> startOffset,
                               endOffset |-> endOffset,
                               delimiterWidth |-> delimiterWidth,
                               labelSpacing |-> spacing])
  /\ records' = sortedAndTaggedInPlace(records)
  /\ query' = NoQuery
  /\ UNCHANGED <<callerVars, call, idleVars, interactionVars>>

\* the positions tried: each segment's startAt, one unit below the first, and
\* one unit either side of maxSpaceAvailable
ProbePositions ==
  IF ~Constructed THEN {} ELSE
  LET numbers == {layout._segments[i].startAt : i \in DOMAIN layout._segments} \ {NaN}
      max == maxSpaceAvailable(layout.config, layout.den)
  IN numbers \cup {max - 1, max + 1}
       \cup (IF layout._segments = <<>> THEN {} ELSE {layout._segments[1].startAt - 1})

\* labelDisplayText: this.layout.selectSegmentInRange(labelPos)
Select(position) ==
  /\ Constructed
  /\ query' = [asked |-> TRUE, position |-> position,
               result |-> selectSegmentInRange(layout, position)]
  /\ UNCHANGED <<records, layout>>
  /\ UNCHANGED <<callerVars, call, idleVars, interactionVars>>

\* the component is destroyed; its layout goes with it
Destroy ==
  /\ Constructed
  /\ layout' = NoLayout
  /\ query' = NoQuery
  /\ UNCHANGED records
  /\ UNCHANGED <<callerVars, call, idleVars, interactionVars>>

Next ==
  \/ \E timestamp \in Timestamps, n \in NumRecordsSet : PushRecord(timestamp, n)
  \/ \E lineSegment \in LineSegments, startOffset \in StartOffsets, endOffset \in EndOffsets,
        delimiterWidth \in DelimiterWidths, spacing \in LabelSpacings,
        orientation \in Orientations :
          Construct(lineSegment, startOffset, endOffset, delimiterWidth, spacing, orientation)
  \/ \E position \in ProbePositions : Select(position)
  \/ Destroy

Spec == Init /\ [][Next]_vars

\* ---------------------------------------------------------------- shared configuration
\* A caller that keeps its configuration objects and its segments array, and
\* constructs several layouts from them.  Objects and arrays are held by
\* identity: the constructor sorts the array a configuration refers to in
\* place, sets isYear on objects of that array, and stores a new array in the
\* configuration object.
MaxCallerSegs == 2      \* longest caller array
MaxConfigs == 2         \* configuration objects the caller writes
MaxConstructions == 2   \* constructor calls, the ones that throw included
MaxCallerTs == 2        \* latest timestamp tick of a caller's record
MaxCallerRecords == 1   \* largest numRecords of a caller's record
MaxPosition == 1        \* largest position looked up, in pixels

CallerTimestamps == 0..MaxCallerTs

CallerNumRecords == 0..MaxCallerRecords

CallerPositions == 0..MaxPosition

\* a configuration that meets every constraint the specification states
ValidChoice(orientation) ==
  [lineSegment |-> MaxLineSegment, startOffset |-> MaxOffset, endOffset |-> MaxOffset,
   delimiterWidth |-> MaxDelimiterWidth, labelSpacing |-> MaxLabelSpacing,
   orientation |-> orientation]

\* the configurations the caller writes: the valid ones, and one for each
\* constraint with that constraint alone not met
ConfigChoices ==
  {ValidChoice(orientation) : orientation \in Orientations}
    \cup {[ValidChoice("vertical") EXCEPT !.lineSegment = 0],
          [ValidChoice("vertical") EXCEPT !.startOffset = -1],
          [ValidChoice("vertical") EXCEPT !.endOffset = -1],
          [ValidChoice("vertical") EXCEPT !.delimiterWidth = -2],
          [ValidChoice("vertical") EXCEPT !.labelSpacing = -1],
          [ValidChoice("vertical") EXCEPT !.startOffset = MaxLineSegment],
          [ValidChoice("vertical") EXCEPT !.orientation = "diagonal"]}

\* the objects of array a, in the array's order
ListOf(a) == [i \in DOMAIN arrays[a] |-> objects[arrays[a][i]]]

\* an object as the constructor's helpers see it, with its identity
Handle(id) ==
  [id |-> id, timestamp |-> objects[id].timestamp,
   numRecords |-> objects[id].numRecords, isYear |-> objects[id].isYear]

IdsOf(handles) == [i \in DOMAIN handles |-> handles[i].id]

\* configuration object c as a value: its segments the objects of the array
\* it refers to now
ConfigOf(c) == [configs[c] EXCEPT !.segments = ListOf(configs[c].segments)]

\* layouts[l].segments and layouts[l].segmentGroups, as values
SegmentsOf(l) == ListOf(layouts[l]._segments)

SegmentGroupsOf(l) ==
  [k \in DOMAIN layouts[l]._segmentGroups |->
     [first |-> objects[layouts[l]._segmentGroups[k].first],
      segments |-> [j \in DOMAIN layouts[l]._segmentGroups[k].segments |->
                      objects[layouts[l]._segmentGroups[k].segments[j]]],
      year |-> layouts[l]._segmentGroups[k].year]]

\* layout l as a value: config is the configuration object it shares with
\* the caller, as that object is now
LayoutOf(l) ==
  [config |-> ConfigOf(layouts[l].config),
   _segments |-> SegmentsOf(l),
   _segmentGroups |-> SegmentGroupsOf(l),
   _numSegmentGroups |-> layouts[l]._numSegmentGroups,
   den |-> layouts[l].den]

\* a numRecords mutant: the sum over the layout's own computed segments
numRecordsOfOwnSegments(l) == SumNumRecords(SegmentsOf(l))

\* layouts[l].numRecords
numRecordsOf(l) == numRecords(ConfigOf(layouts[l].config))

\* the caller pushes a record onto its array
CallerPush(timestamp, n) ==
  /\ Len(arrays[CallerArray]) < MaxCallerSegs
  /\ objects' = Append(objects, [timestamp |-> timestamp, numRecords |-> n, isYear |-> FALSE])
  /\ arrays' = [arrays EXCEPT ![CallerArray] = Append(@, Len(objects) + 1)]
  /\ outcome' = [op |-> "push"]
  /\ UNCHANGED <<configs, layouts>>
  /\ UNCHANGED <<layoutVars, call, idleVars, interactionVars>>

\* the caller writes a configuration object whose segments is its array
Configure(choice) ==
  /\ configs = <<>>
  /\ configs' = Append(configs,
       [lineSegment |-> choice.lineSegment, segments |-> CallerArray,
        orientation |-> choice.orientation, startOffset |-> choice.startOffset,
        endOffset |-> choice.endOffset, delimiterWidth |-> choice.delimiterWidth,
        labelSpacing |-> choice.labelSpacing])
  /\ outcome' = [op |-> "configure"]
  /\ UNCHANGED <<objects, arrays, layouts>>
  /\ UNCHANGED <<layoutVars, call, idleVars, interactionVars>>

\* the caller writes another configuration object with the same values, as
\* NgxChronosTimeline.ngOnInit does each time the component is created
ConfigureAgain ==
  /\ configs # <<>>
  /\ Len(configs) < MaxConfigs
  /\ configs' = Append(configs, [configs[1] EXCEPT !.segments = CallerArray])
  /\ outcome' = [op |-> "configure"]
  /\ UNCHANGED <<objects, arrays, layouts>>
  /\ UNCHANGED <<layoutVars, call, idleVars, interactionVars>>

\* the caller assigns its array to a configuration object's segments again
SetSegments(c) ==
  /\ configs[c].segments # CallerArray
  /\ configs' = [configs EXCEPT ![c].segments = CallerArray]
  /\ outcome' = [op |-> "setSegments"]
  /\ UNCHANGED <<objects, arrays, layouts>>
  /\ UNCHANGED <<layoutVars, call, idleVars, interactionVars>>

\* new TimelineLayout(configs[c]).  groupAndSortByYear sorts the array the
\* configuration refers to in place; the map callback sets isYear on the last
\* object of each year group; flat(1) makes the new array the configuration
\* then refers to; computeLayout replaces that array's elements, one by one,
\* by new objects, and throws on the first one if the orientation is invalid.
ConstructFrom(c) ==
  /\ Len(arrays) <= MaxConstructions
  /\ \E config \in {ConfigOf(c)} :
     \E handles \in {[i \in DOMAIN arrays[configs[c].segments] |->
                        Handle(arrays[configs[c].segments][i])]} :
     \E sortedInput \in {groupAndSortByYear(handles).sortedInput} :
     \E flat \in {taggedSegments(handles)} :
       LET written == [id \in DOMAIN objects |->
                         IF \E i \in DOMAIN flat : flat[i].id = id
                         THEN [objects[id] EXCEPT !.isYear =
                                 flat[CHOOSE i \in DOMAIN flat : flat[i].id = id].isYear]
                         ELSE objects[id]]
           sorted == [arrays EXCEPT ![configs[c].segments] = IdsOf(sortedInput)]
           flatArray == Len(arrays) + 1
       IN IF flat # <<>> /\ Threw(TimelineLayout_getTranslate3d(config, 0))
          THEN /\ objects' = written
               /\ arrays' = Append(sorted, IdsOf(flat))
               /\ configs' = [configs EXCEPT ![c].segments = flatArray]
               /\ outcome' = [op |-> "construct", config |-> c, threw |-> TRUE]
               /\ UNCHANGED layouts
          ELSE \E built \in {TimelineLayout(config)} :
               \E created \in {[i \in DOMAIN flat |->
                                  [id |-> Len(objects) + i,
                                   timestamp |-> built._segments[i].timestamp]]} :
               \E grouped \in {groupSegmentsByYear(created)} :
                 /\ objects' = written \o built._segments
                 /\ arrays' = Append(sorted, IdsOf(created))
                 /\ configs' = [configs EXCEPT ![c].segments = flatArray]
                 /\ layouts' = Append(layouts,
                      [config |-> c,
                       _segments |-> flatArray,
                       _segmentGroups |->
                         [k \in DOMAIN grouped |->
                            [first |-> grouped[k].first.id,
                             segments |-> IdsOf(grouped[k].segments),
                             year |-> grouped[k].year]],
                       _numSegmentGroups |-> built._numSegmentGroups,
                       den |-> built.den,
                       given |-> config.segments])
                 /\ outcome' = [op |-> "construct", config |-> c, threw |-> FALSE]
  /\ UNCHANGED <<layoutVars, call, idleVars, interactionVars>>

\* layouts[l].numRecords
ReadNumRecords(l) ==
  /\ outcome' = [op |-> "numRecords", layout |-> l, returns |-> numRecordsOf(l)]
  /\ UNCHANGED <<objects, arrays, configs, layouts>>
  /\ UNCHANGED <<layoutVars, call, idleVars, interactionVars>>

\* layouts[l].segments: the array itself
ReadSegments(l) ==
  /\ outcome' = [op |-> "segments", layout |-> l, returns |-> layouts[l]._segments]
  /\ UNCHANGED <<objects, arrays, configs, layouts>>
  /\ UNCHANGED <<layoutVars, call, idleVars, interactionVars>>

\* layouts[l].segmentGroups: the year groups themselves
ReadSegmentGroups(l) ==
  /\ outcome' = [op |-> "segmentGroups", layout |-> l, returns |-> layouts[l]._segmentGroups]
  /\ UNCHANGED <<objects, arrays, configs, layouts>>
  /\ UNCHANGED <<layoutVars, call, idleVars, interactionVars>>

\* layouts[l].selectSegmentInRange(position), position in pixels: the object
\* found, 0 for undefined
SelectSegment(l, position) ==
  /\ \E this \in {LayoutOf(l)} :
     \E found \in {selectSegmentInRange(this, position * this.den)} :
       outcome' = [op |-> "selectSegmentInRange", layout |-> l, position |-> position,
                   returns |-> IF found = 0 THEN 0
                               ELSE arrays[layouts[l]._segments][found]]
  /\ UNCHANGED <<objects, arrays, configs, layouts>>
  /\ UNCHANGED <<layoutVars, call, idleVars, interactionVars>>

CallerNext ==
  \/ \E timestamp \in CallerTimestamps, n \in CallerNumRecords : CallerPush(timestamp, n)
  \/ \E choice \in ConfigChoices : Configure(choice)
  \/ ConfigureAgain
  \/ \E c \in DOMAIN configs : SetSegments(c)
  \/ \E c \in DOMAIN configs : ConstructFrom(c)
  \/ \E l \in DOMAIN layouts : ReadNumRecords(l)
  \/ \E l \in DOMAIN layouts : ReadSegments(l)
  \/ \E l \in DOMAIN layouts : ReadSegmentGroups(l)
  \/ \E l \in DOMAIN layouts, position \in CallerPositions : SelectSegment(l, position)

CallerSpec == Init /\ [][CallerNext]_vars

\* ---------------------------------------------------------------- position utilities
\* One call of a utility of utils/position.ts: call holds the function, its
\* arguments and, once the call is made, how it ended.
MaxCoordinate == 3      \* largest number handed to a utility
MaxOffsetArgument == 2  \* largest offset handed to clamp

\* how far below zero the numbers tried go
BelowZero == 1

Coordinates == (-BelowZero)..MaxCoordinate

AnyNumbers == Coordinates \cup {NaN}

AnyOrientations == Orientations \cup {"diagonal"}

\* what a caller may hand over as a point: numbers, 2D coordinates, objects
\* that are no coordinates, a string, null and undefined
AnyPoints ==
  {JsNumber(n) : n \in AnyNumbers}
    \cup {JsObject([x |-> JsNumber(x), y |-> JsNumber(y)]) : x, y \in Coordinates}
    \cup {JsObject([x |-> JsString("not a number"), y |-> JsNumber(y)]) : y \in Coordinates}
    \cup {JsObject([x |-> JsNumber(x), z |-> JsNumber(z)]) : x, z \in Coordinates}
    \cup {JsString("not a number"), JsNull, JsUndefined}

NotCalled == [pending |-> TRUE]

ClampCalls ==
  [fn : {"clamp"}, position : AnyNumbers, totalDistance : 0..MaxCoordinate,
   offsetStart : 0..MaxOffsetArgument, offsetEnd : 0..MaxOffsetArgument,
   result : {NotCalled}]

MainAxisCalls ==
  [fn : {"getMainAxisPosition"}, orientation : AnyOrientations, position : AnyPoints,
   result : {NotCalled}]

TranslateCalls ==
  [fn : {"getTranslate3d"}, orientation : AnyOrientations, value : AnyNumbers,
   result : {NotCalled}]

PositionInit ==
  /\ LayoutIdle
  /\ CallerIdle
  /\ call \in ClampCalls \cup MainAxisCalls \cup TranslateCalls
  /\ IdleManagerIdle
  /\ InteractionIdle

Clamp ==
  /\ call.fn = "clamp"
  /\ call.result = NotCalled
  /\ call' = [call EXCEPT !.result =
       Returns(clamp(call.position, call.totalDistance, call.offsetStart, call.offsetEnd))]
  /\ UNCHANGED <<layoutVars, callerVars, idleVars, interactionVars>>

GetMainAxisPosition ==
  /\ call.fn = "getMainAxisPosition"
  /\ call.result = NotCalled
  /\ call' = [call EXCEPT !.result = getMainAxisPosition(call.orientation, call.position)]
  /\ UNCHANGED <<layoutVars, callerVars, idleVars, interactionVars>>

GetTranslate3d ==
  /\ call.fn = "getTranslate3d"
  /\ call.result = NotCalled
  /\ call' = [call EXCEPT !.result = getTranslate3d(call.orientation, JsNumber(call.value))]
  /\ UNCHANGED <<layoutVars, callerVars, idleVars, interactionVars>>

PositionNext == Clamp \/ GetMainAxisPosition \/ GetTranslate3d

PositionSpec == PositionInit /\ [][PositionNext]_vars

\* ---------------------------------------------------------------- functions
\* One call of groupBy or of a configuration provider: call holds the
\* function, its arguments and, once the call is made, what it returned.
MaxItems == 3       \* longest array handed to groupBy
MaxKey == 1         \* largest array-index key, standing for its decimal string
OrdinaryKeys == 2   \* keys that are no array indices, here -1 and -2
MaxValue == 2       \* largest value of an item

\* the items of the test: { id, value }, grouped by (x) => x.id
GroupByItems == [id : (-OrdinaryKeys)..MaxKey, value : 1..MaxValue]

GroupByArrays == UNION {[1..n -> GroupByItems] : n \in 0..MaxItems}

GroupByCalls == [fn : {"groupBy"}, array : GroupByArrays, result : {NotCalled}]

MaxProvidedOffset == 8         \* the non-zero offset handed to provideTimelineConfig
MaxInactiveAfterMs == 5000     \* the longer inactiveAfterMs handed to provideIdleManager

\* timeline-config.ts defaultOptions
TimelineDefaultOptions == [offsetEnd |-> 24, offsetStart |-> 24, orientation |-> "vertical"]

\* DEFAULT_IDLE_MANAGER_OPTIONS
DefaultInactiveAfterMs == 2250

DEFAULT_IDLE_MANAGER_OPTIONS == [inactiveAfterMs |-> DefaultInactiveAfterMs]

\* an object with no property of its own
EmptyObject == [key \in {} |-> 0]

\* what ...value spreads: the own properties of an object, none of undefined
SpreadOf(value) == IF value = JsUndefined THEN EmptyObject ELSE value

\* the call provideTimelineConfig(), or one with a configuration
TimelineConfigs ==
  {JsUndefined}
    \cup [offsetEnd : {0, MaxProvidedOffset}, offsetStart : {0, MaxProvidedOffset},
          orientation : Orientations]

\* provideIdleManager(), provideIdleManager({}), or one with inactiveAfterMs
IdleManagerOptions ==
  {JsUndefined, EmptyObject}
    \cup {[inactiveAfterMs |-> ms] : ms \in {MaxInactiveAfterMs \div 2, MaxInactiveAfterMs}}

ProviderCalls ==
  [fn : {"provideTimelineConfig"}, config : TimelineConfigs, result : {NotCalled}]
    \cup [fn : {"provideIdleManager"}, options : IdleManagerOptions, result : {NotCalled}]

\* { provide: ChronTimelineConfig, useValue: { ...defaultOptions, config } }
provideTimelineConfig(config) ==
  [provide |-> "ChronTimelineConfig",
   useValue |-> Spread(TimelineDefaultOptions, [config |-> config])]

\* [IdleManager, { provide: IDLE_MANAGER_CONFIG, useValue: { ...DEFAULT_IDLE_MANAGER_OPTIONS, ...options } }]
provideIdleManager(options) ==
  <<"IdleManager",
    [provide |-> "IDLE_MANAGER_CONFIG",
     useValue |-> Spread(SpreadOf(DEFAULT_IDLE_MANAGER_OPTIONS), SpreadOf(options))]>>

FunctionInit ==
  /\ LayoutIdle
  /\ CallerIdle
  /\ call \in GroupByCalls \cup ProviderCalls
  /\ IdleManagerIdle
  /\ InteractionIdle

GroupBy ==
  /\ call.fn = "groupBy"
  /\ call.result = NotCalled
  /\ call' = [call EXCEPT !.result =
       Returns(groupBy(call.array, [x \in GroupByItems |-> x.id]))]
  /\ UNCHANGED <<layoutVars, callerVars, idleVars, interactionVars>>

ProvideTimelineConfig ==
  /\ call.fn = "provideTimelineConfig"
  /\ call.result = NotCalled
  /\ call' = [call EXCEPT !.result = Returns(provideTimelineConfig(call.config))]
  /\ UNCHANGED <<layoutVars, callerVars, idleVars, interactionVars>>

ProvideIdleManager ==
  /\ call.fn = "provideIdleManager"
  /\ call.result = NotCalled
  /\ call' = [call EXCEPT !.result = Returns(provideIdleManager(call.options))]
  /\ UNCHANGED <<layoutVars, callerVars, idleVars, interactionVars>>

FunctionNext ==
  \/ GroupBy
  \/ ProvideTimelineConfig
  \/ ProvideIdleManager

FunctionSpec == FunctionInit /\ [][FunctionNext]_vars

\* ---------------------------------------------------------------- IdleManager
\* One IdleManager instance in a browser (isBrowser is true, so takeWhile
\* lets every event through).  Time is in clock ticks; a timer fires when
\* it is due, before the clock moves on, and timers due at the same tick
\* fire in the order they were set.
InactiveAfterTicks == 2   \* config.inactiveAfterMs, in ticks
MaxObserves == 3          \* observe() calls on the instance
MaxTime == 6              \* the clock's last tick

\* the instance and the browser's timers, as the private methods change them
IdleManagerState == [manager |-> idleManager, timeouts |-> timeouts]

\* setTimeout(handler, config.inactiveAfterMs): the id of the new timer, one
\* that no pending timer has, and the pending timers with it
NewTimerId(st) ==
  CHOOSE id \in 1..(Len(st.timeouts) + 2) :
    /\ id # st.manager.inactivityTimer
    /\ \A i \in DOMAIN st.timeouts : st.timeouts[i].id # id

setTimeout(pending, id) == Append(pending, [id |-> id, due |-> now + InactiveAfterTicks])

\* clearTimeout(id); clearTimeout(undefined) does nothing
clearTimeout(pending, id) == SelectSeq(pending, LAMBDA t : t.id # id)

resetInactivityTimer(st) ==
  [manager |-> [st.manager EXCEPT !.inactivityTimer = NoTimer],
   timeouts |-> clearTimeout(st.timeouts, st.manager.inactivityTimer)]

startInactivityTimer(st) ==
  [manager |-> [st.manager EXCEPT !.inactivityTimer = NewTimerId(st)],
   timeouts |-> setTimeout(st.timeouts, NewTimerId(st))]

restartInactivityTimer(st) == startInactivityTimer(resetInactivityTimer(st))

toggleIdleState(st, active) == [st EXCEPT !.manager.idleState = active]

\* the tap callback of one subscription: the user is active
OnActivityEvent(st) == toggleIdleState(restartInactivityTimer(st), FALSE)

\* an activity event delivered to n subscriptions, one after the other
RECURSIVE Deliver(_, _)
Deliver(st, n) == IF n = 0 THEN st ELSE OnActivityEvent(Deliver(st, n - 1))

\* the timer callback, the fired timer no longer pending: the user is inactive
OnInactivityTimeout(st) == toggleIdleState(resetInactivityTimer(st), TRUE)

\* observe(): one more subscription to the activity events, and the initial
\* inactivity timer
Observe ==
  /\ idleManager.subscriptions < MaxObserves
  /\ \E st \in {startInactivityTimer(
                  [IdleManagerState EXCEPT !.manager.subscriptions = @ + 1])} :
       /\ idleManager' = st.manager
       /\ timeouts' = st.timeouts
  /\ UNCHANGED <<now, history>>
  /\ UNCHANGED <<layoutVars, callerVars, call, interactionVars>>

\* one of the DOM events of DOCUMENT_EVENT_NAMES and WINDOW_EVENT_NAMES
ActivityEvent ==
  /\ \E st \in {Deliver(IdleManagerState, idleManager.subscriptions)} :
       /\ idleManager' = st.manager
       /\ timeouts' = st.timeouts
  /\ history' = [lastActivity |-> now, onIdle |-> 0]
  /\ UNCHANGED now
  /\ UNCHANGED <<layoutVars, callerVars, call, interactionVars>>

\* the oldest pending timer is due and its callback runs: onIdle emits
InactivityTimeout ==
  /\ timeouts # <<>>
  /\ Head(timeouts).due <= now
  /\ \E st \in {OnInactivityTimeout([IdleManagerState EXCEPT !.timeouts = Tail(@)])} :
       /\ idleManager' = st.manager
       /\ timeouts' = st.timeouts
  /\ history' = [history EXCEPT !.onIdle = @ + 1]
  /\ UNCHANGED now
  /\ UNCHANGED <<layoutVars, callerVars, call, interactionVars>>

\* a tick passes with no timer due
Tick ==
  /\ now < MaxTime
  /\ timeouts # <<>> => Head(timeouts).due > now
  /\ now' = now + 1
  /\ UNCHANGED <<idleManager, timeouts, history>>
  /\ UNCHANGED <<layoutVars, callerVars, call, interactionVars>>

IdleNext == Observe \/ ActivityEvent \/ InactivityTimeout \/ Tick

IdleSpec == Init /\ [][IdleNext]_vars

\* ---------------------------------------------------------------- InteractionManager
\* The timeline component and its InteractionManager.  Pixel values are kept
\* in hundredths of a pixel, the precision moveByFraction rounds to.  An
\* event and the handlers it reaches are one step (the animation frame that
\* the scheduled streams wait for is not a step of its own).
Hundredths == 100    \* round(value, 2): units per pixel
MaxDistance == 6     \* the longer of the two container lengths, in pixels
MaxOffsetStart == 1  \* the non-zero offsetStart, in pixels
MaxOffsetEnd == 2    \* the non-zero offsetEnd, in pixels
MaxPointer == 9      \* the farthest pointer coordinate, in pixels
MaxWheelDelta == 6000 \* the wheelDelta of the fastest wheel event

Pixels(n) == n * Hundredths

Distances == {Pixels(MaxDistance - 2), Pixels(MaxDistance)}

OffsetStarts == {0, Pixels(MaxOffsetStart)}

OffsetEnds == {0, Pixels(MaxOffsetEnd)}

\* what the component hands to the constructor: the ChronTimelineConfig
\* values and the container's length
Geometries ==
  [distance : Distances, offsetStart : OffsetStarts, offsetEnd : OffsetEnds,
   orientation : Orientations]

\* the arguments tried for updateConfig: one field, or distance and
\* offsetStart together as the test does
UpdateConfigs ==
  {[distance |-> d] : d \in Distances}
    \cup {[offsetStart |-> o] : o \in OffsetStarts}
    \cup {[offsetEnd |-> o] : o \in OffsetEnds}
    \cup {[distance |-> Pixels(MaxDistance), offsetStart |-> Pixels(MaxOffsetStart)]}

\* fractions handed to moveByFraction, as quotients
Fractions == {[num |-> 0, den |-> 1], [num |-> 1, den |-> 3], [num |-> 1, den |-> 1]}

\* getRelativePosition(evt, element): where the pointer is, seen from the
\* element, off its diagonal
PointerCoordinates == {Pixels(-1), Pixels(2), Pixels(MaxPointer)}

Pointers ==
  {JsObject([x |-> JsNumber(p[1]), y |-> JsNumber(p[2])]) :
     p \in {q \in PointerCoordinates \X PointerCoordinates : q[1] # q[2]}}

\* normalizeWheelDistance(evt) of an event with no detail
normalizeWheelDistance(wheelDelta) == wheelDelta \div 120

\* getDirectionOfTravelFromWheel(evt), which position.spec.ts shows to be
\* normalizeWheelDistance(evt)
WheelDirections == {normalizeWheelDistance(-MaxWheelDelta), normalizeWheelDistance(MaxWheelDelta)}

\* round(value, 2) of the quotient num / den of hundredths: Math.round puts a
\* half up
round(num, den) == (2 * num + den) \div (2 * den)

\* a computed signal that has to be computed at its next read
Stale == [stale |-> TRUE]

Memo(value) == [value |-> value]

\* new InteractionManager(config)
InteractionManager(config) ==
  [constructed |-> TRUE,
   config |-> Spread([offsetEnd |-> 0, offsetStart |-> 0, orientation |-> "vertical"], config),
   _position |-> 0,
   position |-> Stale,
   positionPct |-> Stale,
   _cursorPos |-> 0,
   cursorPos |-> Stale,
   detecting |-> FALSE,
   dragging |-> FALSE]

upperBound(m) == m.config.distance - m.config.offsetEnd

lowerBound(m) == m.config.offsetStart

totalOffset(m) == m.config.offsetStart + m.config.offsetEnd

InteractionManager_maxSpaceAvailable(m) == m.config.distance - totalOffset(m)

\* the private clamp(point)
InteractionManager_clamp(m, point) ==
  clamp(getMainAxisPosition(m.config.orientation, point).returns,
        m.config.distance, m.config.offsetStart, m.config.offsetEnd)

\* calcRelativeFraction(posPx), the quotient not reduced
calcRelativeFraction(m, posPx) ==
  [num |-> 2 * posPx - totalOffset(m), den |-> 2 * InteractionManager_maxSpaceAvailable(m)]

\* _position.set(value): a changed value makes the computed signals that read
\* _position stale
SetPosition(m, value) ==
  IF value = m._position THEN m
  ELSE [m EXCEPT !._position = value, !.position = Stale, !.positionPct = Stale]

\* _cursorPos.set(value)
SetCursorPos(m, value) ==
  IF value = m._cursorPos THEN m
  ELSE [m EXCEPT !._cursorPos = value, !.cursorPos = Stale]

\* position(), cursorPos() and positionPct() read now: the value computed at
\* an earlier read unless a signal it read has changed since
InteractionManager_position(m) ==
  IF m.position = Stale THEN InteractionManager_clamp(m, JsNumber(m._position))
  ELSE m.position.value

InteractionManager_cursorPos(m) ==
  IF m.cursorPos = Stale THEN InteractionManager_clamp(m, JsNumber(m._cursorPos))
  ELSE m.cursorPos.value

InteractionManager_positionPct(m) ==
  IF m.positionPct = Stale THEN calcRelativeFraction(m, m._position)
  ELSE m.positionPct.value

moveByFraction(m, fraction) ==
  SetPosition(m, InteractionManager_clamp(m,
                   JsNumber(round(m.config.distance * fraction.num, fraction.den))))

moveByPixels(m, positionInPixels) ==
  SetPosition(m, InteractionManager_clamp(m, JsNumber(positionInPixels)))

updateConfig(m, config) == [m EXCEPT !.config = Spread(m.config, config)]

updateCursorPos(m, point) == SetCursorPos(m, InteractionManager_clamp(m, point))

onClick(m, coords) == moveByPixels(m, InteractionManager_clamp(m, coords))

\* onWheel once isWithinBounds(direction) has let it through
onWheel(m, direction) ==
  moveByFraction(m, [num |-> Hundredths * m._position - direction * m.config.distance,
                     den |-> Hundredths * m.config.distance])

onMousemove(m, coords) ==
  updateCursorPos(m, JsNumber(InteractionManager_clamp(m, coords)))

onMousedown(m, coords) ==
  updateCursorPos(moveByPixels(m, InteractionManager_clamp(m, coords)),
                  JsNumber(InteractionManager_clamp(m, coords)))

Initialised == timeline.initialised

\* ngOnInit: the InteractionManager is constructed and starts detecting
NgOnInit(geometry) ==
  /\ ~Initialised
  /\ interactionManager' = [InteractionManager(geometry) EXCEPT !.detecting = TRUE]
  /\ timeline' = [initialised |-> TRUE, isCursorVisible |-> FALSE,
                  cursorVisibility |-> FALSE, destroyed |-> FALSE]
  /\ UNCHANGED <<layoutVars, callerVars, call, idleVars>>

\* ngAfterViewInit: detectCursorVisibilityChanges subscribes to mousemove$
\* and mouseleave$
NgAfterViewInit ==
  /\ Initialised
  /\ ~timeline.cursorVisibility
  /\ timeline' = [timeline EXCEPT !.cursorVisibility = TRUE]
  /\ UNCHANGED interactionManager
  /\ UNCHANGED <<layoutVars, callerVars, call, idleVars>>

\* ngOnDestroy: detach() ends the subscription detectInteractions made
NgOnDestroy ==
  /\ Initialised
  /\ timeline.cursorVisibility
  /\ ~timeline.destroyed
  /\ interactionManager' = [interactionManager EXCEPT !.detecting = FALSE, !.dragging = FALSE]
  /\ timeline' = [timeline EXCEPT !.destroyed = TRUE]
  /\ UNCHANGED <<layoutVars, callerVars, call, idleVars>>

\* the application calls a method of the manager of a live component
Live == Initialised /\ ~timeline.destroyed

MoveByFraction(fraction) ==
  /\ Live
  /\ interactionManager' = moveByFraction(interactionManager, fraction)
  /\ UNCHANGED timeline
  /\ UNCHANGED <<layoutVars, callerVars, call, idleVars>>

MoveByPixels(positionInPixels) ==
  /\ Live
  /\ interactionManager' = moveByPixels(interactionManager, positionInPixels)
  /\ UNCHANGED timeline
  /\ UNCHANGED <<layoutVars, callerVars, call, idleVars>>

UpdateConfig(config) ==
  /\ Live
  /\ interactionManager' = updateConfig(interactionManager, config)
  /\ UNCHANGED timeline
  /\ UNCHANGED <<layoutVars, callerVars, call, idleVars>>

\* a change detection pass reads the signals the template is bound to:
\* position(), cursorPos() and positionPct()
DetectChanges ==
  /\ Live
  /\ interactionManager' =
       [interactionManager EXCEPT
          !.position = Memo(InteractionManager_position(interactionManager)),
          !.cursorPos = Memo(InteractionManager_cursorPos(interactionManager)),
          !.positionPct = Memo(InteractionManager_positionPct(interactionManager))]
  /\ UNCHANGED timeline
  /\ UNCHANGED <<layoutVars, callerVars, call, idleVars>>

\* a click on the container
Click(coords) ==
  /\ Initialised
  /\ interactionManager' =
       IF interactionManager.detecting THEN onClick(interactionManager, coords)
       ELSE interactionManager
  /\ UNCHANGED timeline
  /\ UNCHANGED <<layoutVars, callerVars, call, idleVars>>

\* a wheel event on the container; isWithinBounds depends on the values of
\* DirectionOfTravel, so that it lets the event through or not
Wheel(direction, within) ==
  /\ Initialised
  /\ interactionManager' =
       IF interactionManager.detecting /\ within THEN onWheel(interactionManager, direction)
       ELSE interactionManager
  /\ UNCHANGED timeline
  /\ UNCHANGED <<layoutVars, callerVars, call, idleVars>>

\* a mousemove on the viewport: onMousemove through moveUntilMousedown$ and
\* through the component's subscription to mousemove$, onMousedown as well
\* while a button is held (moveUntilMouseup$)
Mousemove(coords) ==
  /\ Initialised
  /\ interactionManager' =
       IF interactionManager.detecting /\ interactionManager.dragging
       THEN onMousedown(onMousemove(interactionManager, coords), coords)
       ELSE IF interactionManager.detecting \/ timeline.cursorVisibility
       THEN onMousemove(interactionManager, coords)
       ELSE interactionManager
  /\ timeline' = IF timeline.cursorVisibility
                 THEN [timeline EXCEPT !.isCursorVisible = TRUE]
                 ELSE timeline
  /\ UNCHANGED <<layoutVars, callerVars, call, idleVars>>

\* a mousedown on the viewport: onMousedown through mousedown$, and
\* moveUntilMouseup$ starts to follow the pointer
Mousedown(coords) ==
  /\ Initialised
  /\ interactionManager' =
       IF interactionManager.detecting
       THEN [onMousedown(interactionManager, coords) EXCEPT !.dragging = TRUE]
       ELSE interactionManager
  /\ UNCHANGED timeline
  /\ UNCHANGED <<layoutVars, callerVars, call, idleVars>>

\* a mouseup on the viewport: mouseup$, whose handler is onMousedown, ends
\* what moveUntilMouseup$ follows
Mouseup(coords) ==
  /\ Initialised
  /\ interactionManager' =
       IF interactionManager.detecting /\ interactionManager.dragging
       THEN [onMousedown(interactionManager, coords) EXCEPT !.dragging = FALSE]
       ELSE interactionManager
  /\ UNCHANGED timeline
  /\ UNCHANGED <<layoutVars, callerVars, call, idleVars>>

\* a mouseleave on the viewport: onMouseleave does nothing, the component
\* hides the cursor
Mouseleave ==
  /\ Initialised
  /\ timeline' = IF timeline.cursorVisibility
                 THEN [timeline EXCEPT !.isCursorVisible = FALSE]
                 ELSE timeline
  /\ UNCHANGED interactionManager
  /\ UNCHANGED <<layoutVars, callerVars, call, idleVars>>

InteractionNext ==
  \/ \E geometry \in Geometries : NgOnInit(geometry)
  \/ NgAfterViewInit
  \/ NgOnDestroy
  \/ \E fraction \in Fractions : MoveByFraction(fraction)
  \/ \E positionInPixels \in PointerCoordinates : MoveByPixels(positionInPixels)
  \/ \E config \in UpdateConfigs : UpdateConfig(config)
  \/ DetectChanges
  \/ \E coords \in Pointers : Click(coords)
  \/ \E direction \in WheelDirections, within \in BOOLEAN : Wheel(direction, within)
  \/ \E coords \in Pointers : Mousemove(coords)
  \/ \E coords \in Pointers : Mousedown(coords)
  \/ \E coords \in Pointers : Mouseup(coords)
  \/ Mouseleave

InteractionSpec == Init /\ [][InteractionNext]_vars

\* ---------------------------------------------------------------- properties
segs == layout._segments

Total == numRecords(layout.config)

YearAt(i) == getFullYear(segs[i].timestamp)

YearsPresent == {YearAt(i) : i \in DOMAIN segs}

\* i is the last segment of its calendar year in the flat, newest-first list
LastOfYear(i) == \A j \in DOMAIN segs : j > i => YearAt(j) # YearAt(i)

AllHaveRecords == \A i \in DOMAIN segs : segs[i].numRecords > 0

RECURSIVE SumFractions(_)
SumFractions(s) == IF s = <<>> THEN 0 ELSE Head(s).fraction + SumFractions(Tail(s))

\* C1: with total numRecords > 0, consecutive computed segments are
\* contiguous: segments[i].endAt = segments[i+1].startAt for all i.
C1_Contiguity ==
  (Constructed /\ Total > 0) =>
    \A i \in 1..(Len(segs) - 1) : segs[i].endAt = segs[i + 1].startAt

C1_Witness ==
  /\ Constructed
  /\ Total > 0
  /\ Len(segs) = 3
  /\ \A i \in DOMAIN segs : segs[i].endAt > segs[i].startAt

\* C2: with total numRecords > 0, segments[0].startAt = -delimiterRadius and
\* last.endAt - first.startAt = maxSpaceAvailable - delimiterRadius * G, G the
\* number of distinct calendar years, which is segmentGroups.length.
C2_Span ==
  (Constructed /\ Total > 0) =>
    /\ segs[1].startAt = -delimiterRadius(layout.config, layout.den)
    /\ Cardinality(YearsPresent) = Len(layout._segmentGroups)
    /\ segs[Len(segs)].endAt - segs[1].startAt =
         maxSpaceAvailable(layout.config, layout.den)
           - delimiterRadius(layout.config, layout.den) * Cardinality(YearsPresent)

\* C3: with total numRecords > 0, each fraction is numRecords / total, lies in
\* [0, 1], and the fractions sum to 1 (1 is den in the layout's unit).
C3_Fractions ==
  (Constructed /\ Total > 0) =>
    /\ \A i \in DOMAIN segs :
         /\ segs[i].fraction * Total = segs[i].numRecords * layout.den
         /\ 0 <= segs[i].fraction /\ segs[i].fraction <= layout.den
    /\ SumFractions(segs) = layout.den

C3_Witness ==
  /\ Constructed
  /\ Len(segs) = 3
  /\ \E i, j \in DOMAIN segs :
       /\ segs[i].fraction # segs[j].fraction
       /\ segs[i].fraction > 0 /\ segs[j].fraction > 0

\* C4: a computed segment has isYear = true if and only if it is the last
\* segment of its calendar year in the newest-first order, so each year
\* present has exactly one segment with isYear = true; also when the caller's
\* segment objects went through an earlier construction.
C4_YearTagging ==
  (Constructed /\ AllHaveRecords) =>
    /\ \A i \in DOMAIN segs : segs[i].isYear <=> LastOfYear(i)
    /\ \A y \in YearsPresent :
         Cardinality({i \in DOMAIN segs : YearAt(i) = y /\ segs[i].isYear}) = 1

groups == layout._segmentGroups

\* how many elements of s carry this timestamp and this numRecords
CountOf(s, timestamp, n) ==
  Cardinality({i \in DOMAIN s : s[i].timestamp = timestamp /\ s[i].numRecords = n})

IsPermutationOf(a, b) ==
  /\ Len(a) = Len(b)
  /\ \A timestamp \in Timestamps, n \in NumRecordsSet :
       CountOf(a, timestamp, n) = CountOf(b, timestamp, n)

\* C5: whatever the order of the input array, the flat computed list is a
\* permutation of it (same timestamp/numRecords pairs) ordered newest first.
\* Stated over the constructing step, records being the input array.
C5_SortedPermutation ==
  [][(~Constructed /\ Constructed') =>
       /\ IsPermutationOf(layout'._segments, records)
       /\ \A i \in 1..(Len(layout'._segments) - 1) :
            getTime(layout'._segments[i].timestamp) >= getTime(layout'._segments[i + 1].timestamp)]_vars

C5_Witness ==
  /\ Constructed
  /\ Len(segs) = 3
  /\ \A i \in 1..2 : segs[i].timestamp > segs[i + 1].timestamp
  /\ segs[1].numRecords # segs[3].numRecords

\* C6: segmentGroups holds exactly one group per distinct calendar year of
\* the input, in strictly descending year order.
C6_DescendingYears ==
  (Constructed /\ AllHaveRecords) =>
    /\ Len(groups) = Cardinality(YearsPresent)
    /\ {groups[g].year : g \in DOMAIN groups} = YearsPresent
    /\ \A g \in 1..(Len(groups) - 1) : groups[g].year > groups[g + 1].year

\* the flat segments of year y, in flat-list order
SegmentsOfYear(y) == SelectSeq(segs, LAMBDA x : getFullYear(x.timestamp) = y)

\* C7: for every year group g, g.first is the segment of year g.year with
\* isYear = true, g.segments holds the other segments of that year in flat-list
\* order, and first plus segments over all groups are the flat segments, each
\* exactly once.
C7_YearGroups ==
  (Constructed /\ AllHaveRecords) =>
    /\ \A g \in DOMAIN groups :
         /\ groups[g].first.isYear
         /\ \A i \in DOMAIN groups[g].segments : ~groups[g].segments[i].isYear
         /\ Append(groups[g].segments, groups[g].first) = SegmentsOfYear(groups[g].year)
    /\ \A g, h \in DOMAIN groups : groups[g].year = groups[h].year => g = h
    /\ {groups[g].year : g \in DOMAIN groups} = YearsPresent

Max == maxSpaceAvailable(layout.config, layout.den)

\* the usable span, maxSpaceAvailable - delimiterRadius * numSegmentGroups, is
\* not negative, so that no segment ends before it starts
UsableSpanNonNegative ==
  Max - delimiterRadius(layout.config, layout.den) * layout._numSegmentGroups >= 0

\* the positions of the axis and a margin either side, in the layout's unit
Positions ==
  (-delimiterRadius(layout.config, layout.den) - 2)..(Max + 2)

\* the first segment that starts where segments[k] starts
FirstStartingAt(k) ==
  CHOOSE m \in DOMAIN segs :
    /\ segs[m].startAt = segs[k].startAt
    /\ \A j \in DOMAIN segs : segs[j].startAt = segs[k].startAt => m <= j

\* C8 as stated: half-open intervals [startAt, nextSegment.startAt), so
\* selectSegmentInRange(segments[k].startAt) returns segments[k] for every k and
\* a position just below maxSpaceAvailable returns the last segment.
C8_HalfOpenIntervals ==
  (Constructed /\ AllHaveRecords /\ UsableSpanNonNegative /\ Len(segs) >= 1 /\ query.asked) =>
    /\ \A k \in DOMAIN segs : query.position = segs[k].startAt => query.result = k
    /\ (query.position = Max - 1 /\ segs[Len(segs)].startAt < Max - 1) =>
         query.result = Len(segs)

\* C8 amended: closed intervals [startAt, nextSegment.startAt], the last
\* segment's being [startAt, maxSpaceAvailable], and the first match wins, so a
\* boundary position belongs to the earlier segment: with total numRecords > 0
\* and a non-negative usable span, selectSegmentInRange(segments[0].startAt)
\* returns segments[0], selectSegmentInRange(segments[k].startAt) for k >= 1
\* returns the segment just before the first segment that starts there, and a
\* position above the last segment's startAt and not above maxSpaceAvailable
\* returns the last segment.
C8_ClosedIntervals ==
  (Constructed /\ Total > 0 /\ UsableSpanNonNegative /\ query.asked) =>
    /\ \A k \in DOMAIN segs :
         query.position = segs[k].startAt =>
           query.result = IF FirstStartingAt(k) = 1 THEN 1 ELSE FirstStartingAt(k) - 1
    /\ (segs[Len(segs)].startAt < query.position /\ query.position <= Max) =>
         query.result = Len(segs)
    /\ query.result # 0 =>
         /\ segs[query.result].startAt <= query.position
         /\ query.position <= (IF query.result = Len(segs) THEN Max
                               ELSE segs[query.result + 1].startAt)

C8_Witness ==
  /\ Constructed
  /\ AllHaveRecords
  /\ UsableSpanNonNegative
  /\ Len(segs) = 3
  /\ query.asked
  /\ query.position = segs[3].startAt
  /\ query.result = 2

\* C9 as stated: with at least one segment selectSegmentInRange never returns
\* undefined; a position outside the axis returns the nearest boundary segment.
C9_NeverUndefined ==
  (Constructed /\ AllHaveRecords /\ UsableSpanNonNegative /\ Len(segs) >= 1 /\ query.asked) =>
    query.result # 0

\* C9 amended: with at least one segment, total numRecords > 0 and a
\* non-negative usable span, selectSegmentInRange(position) returns a segment
\* exactly when segments[0].startAt <= position <= maxSpaceAvailable; below the
\* first startAt and above maxSpaceAvailable it returns undefined.
C9_DefinedOnAxisOnly ==
  (Constructed /\ Total > 0 /\ UsableSpanNonNegative /\ Len(segs) >= 1) =>
    /\ \A position \in Positions :
         selectSegmentInRange(layout, position) # 0
           <=> (segs[1].startAt <= position /\ position <= Max)
    /\ query.asked =>
         (query.result # 0 <=> (segs[1].startAt <= query.position /\ query.position <= Max))

C9_Witness ==
  /\ Constructed
  /\ AllHaveRecords
  /\ UsableSpanNonNegative
  /\ Len(segs) = 2
  /\ query.asked
  /\ query.position > Max
  /\ query.result = 0

\* C10: a TimelineLayout constructed from an empty segment list has
\* numRecords = 0, segments = [], segmentGroups = [], and
\* selectSegmentInRange(p) = undefined for every position p.
C10_EmptyInput ==
  (Constructed /\ records = <<>>) =>
    /\ numRecords(layout.config) = 0
    /\ layout._segments = <<>>
    /\ layout._segmentGroups = <<>>
    /\ \A position \in Positions : selectSegmentInRange(layout, position) = 0
    /\ query.asked => query.result = 0

C10_Witness ==
  /\ Constructed
  /\ records = <<>>
  /\ query.asked
  /\ query.position = Max - 1
  /\ query.result = 0

\* the constraints the specification states for a configuration
MeetsConstraints(config) ==
  /\ config.lineSegment > 0
  /\ config.startOffset >= 0
  /\ config.endOffset >= 0
  /\ config.delimiterWidth >= 0
  /\ config.labelSpacing >= 0
  /\ config.startOffset + config.endOffset < config.lineSegment
  /\ isOrientation(config.orientation)

\* C13: every computed segment has startAt <= endAt, for every configuration
\* that meets the stated constraints and has total numRecords > 0.
C13_StartBeforeEnd ==
  (Constructed /\ MeetsConstraints(layout.config) /\ Total > 0) =>
    \A i \in DOMAIN segs : Leq(segs[i].startAt, segs[i].endAt)

\* C15: when every input segment has numRecords = 0, every fraction is 0,
\* each segment's endAt is a number and equals the next segment's startAt,
\* also a number, and selectSegmentInRange finds a segment for every position
\* in [0, maxSpaceAvailable].
C15_ZeroRecords ==
  (Constructed /\ segs # <<>> /\ \A i \in DOMAIN segs : segs[i].numRecords = 0) =>
    /\ \A i \in DOMAIN segs : segs[i].fraction = 0
    /\ \A i \in 1..(Len(segs) - 1) :
         /\ ~IsNaN(segs[i].endAt)
         /\ ~IsNaN(segs[i + 1].startAt)
         /\ segs[i].endAt = segs[i + 1].startAt
    /\ \A position \in Positions :
         (0 <= position /\ position <= Max) => selectSegmentInRange(layout, position) # 0

\* the translate3d value that places an anchor on the configured axis
AnchoredAt(anchor) ==
  IF layout.config.orientation = "horizontal"
  THEN "translate3d(" \o NumberToString(anchor) \o "px, 0px, 0px)"
  ELSE "translate3d(0px, " \o NumberToString(anchor) \o "px, 0px)"

\* delimiterWidth / 2 and labelSpacing - delimiterWidth / 2, in the layout's unit
HalfDelimiterWidth == (layout.config.delimiterWidth * layout.den) \div 2

LabelRoom == layout.config.labelSpacing * layout.den - HalfDelimiterWidth

\* C25: each computed segment's transform places its anchor at
\* endAt - delimiterWidth/2 on the configured axis, except for a segment
\* with isYear = true that is not the last of the flat list, whose anchor is
\* endAt - (labelSpacing - delimiterWidth/2).
C25_TransformAnchor ==
  Constructed =>
    \A i \in DOMAIN segs :
      segs[i].transform =
        AnchoredAt(IF segs[i].isYear /\ i # Len(segs)
                   THEN Sub(segs[i].endAt, LabelRoom)
                   ELSE Sub(segs[i].endAt, HalfDelimiterWidth))

\* a layout of two years with records and a delimiter: the first segment is a
\* year's last and anchored by the label room, the last by the delimiter
C25_Witness ==
  /\ Constructed
  /\ AllHaveRecords
  /\ Len(segs) = 2
  /\ layout.config.delimiterWidth > 0
  /\ segs[1].isYear /\ segs[2].isYear
  /\ segs[1].transform = AnchoredAt(segs[1].endAt - LabelRoom)
  /\ segs[2].transform = AnchoredAt(segs[2].endAt - HalfDelimiterWidth)
  /\ LabelRoom # HalfDelimiterWidth

\* C26: for a layout with at least one segment and total numRecords > 0,
\* selectSegmentInRange(p) returns, for every p in [0, maxSpaceAvailable], a
\* segment s with s.startAt <= p.
C26_LabelOnAxis ==
  (Constructed /\ Len(segs) >= 1 /\ Total > 0) =>
    /\ \A position \in 0..Max :
         \E found \in {selectSegmentInRange(layout, position)} :
           found # 0 /\ segs[found].startAt <= position
    /\ (query.asked /\ 0 <= query.position /\ query.position <= Max) =>
         /\ query.result # 0
         /\ segs[query.result].startAt <= query.position

\* position 0 asked of a layout of two segments with records and no
\* delimiter, whose first segment starts at 0
C26_Witness ==
  /\ Constructed
  /\ AllHaveRecords
  /\ Len(segs) = 2
  /\ segs[1].startAt = 0
  /\ Max > 0
  /\ query.asked
  /\ query.position = 0
  /\ query.result = 1

\* ---------------------------------------------------------------- properties of the shared configuration
\* the list configuration object c refers to, summed
SumOfConfig(c) == SumNumRecords(ListOf(configs[c].segments))

\* the step is a constructor call, on configuration object outcome'.config:
\* each call makes one array
ConstructorCall == Len(arrays') > Len(arrays)

\* C11: numRecords is the sum of numRecords over the list the layout's
\* configuration refers to when numRecords is read, not a value kept from
\* construction; when a construction returns, it equals the sum over the
\* input segments and the sum over the layout's segments.
C11_LiveSum ==
  [][/\ outcome'.op = "numRecords" =>
          outcome'.returns = SumOfConfig(layouts[outcome'.layout].config)
     /\ \A l \in DOMAIN layouts' \ DOMAIN layouts :
          /\ numRecordsOf(l)' = SumOfConfig(outcome'.config)
          /\ numRecordsOf(l)' = SumNumRecords(SegmentsOf(l))'
    ]_vars

\* numRecords read after the caller changed the list: it is no longer the
\* sum over the layout's own segments
C11_Witness ==
  /\ outcome.op = "numRecords"
  /\ outcome.returns # SumNumRecords(SegmentsOf(outcome.layout))
  /\ outcome.returns > 0
  /\ SegmentsOf(outcome.layout) # <<>>

\* configuration objects c and d hold the same values
SameValues(c, d) ==
  /\ configs[c].lineSegment = configs[d].lineSegment
  /\ configs[c].orientation = configs[d].orientation
  /\ configs[c].startOffset = configs[d].startOffset
  /\ configs[c].endOffset = configs[d].endOffset
  /\ configs[c].delimiterWidth = configs[d].delimiterWidth
  /\ configs[c].labelSpacing = configs[d].labelSpacing

\* the TimelineSegmentBase properties of the segments of a list
BaseOf(list) ==
  [k \in DOMAIN list |->
     [timestamp |-> list[k].timestamp,
      numRecords |-> list[k].numRecords,
      isYear |-> list[k].isYear]]

\* the segment list as the construction of layout i left it to the caller:
\* the list it was given, sorted, the last segment of each year with isYear set
LeftBy(i) == BaseOf(SegmentsOf(i))

\* layouts i and j were constructed from identical configurations: the same
\* values, and a segment list that was, when layout j's constructor received
\* it, the one layout i's constructor had received, or that one as layout
\* i's constructor left it
SameConfiguration(i, j) ==
  /\ SameValues(layouts[i].config, layouts[j].config)
  /\ \/ BaseOf(layouts[j].given) = BaseOf(layouts[i].given)
     \/ BaseOf(layouts[j].given) = LeftBy(i)

\* C12: two layouts constructed from identical configurations have
\* structurally identical segments and segmentGroups, also when the second is
\* constructed from the configuration object and the segment objects that
\* the first construction was given.
C12_Idempotence ==
  \A i, j \in DOMAIN layouts :
    (i < j /\ SameConfiguration(i, j)) =>
      /\ SegmentsOf(i) = SegmentsOf(j)
      /\ SegmentGroupsOf(i) = SegmentGroupsOf(j)

\* two layouts from one configuration object that meets the constraints: the
\* first construction had to put its two segments of different years in
\* order, the second was given the segments array of the first
C12_Witness ==
  /\ Len(layouts) = 2
  /\ layouts[1].config = layouts[2].config
  /\ MeetsConstraints(configs[layouts[1].config])
  /\ SameConfiguration(1, 2)
  /\ Len(layouts[1].given) = 2
  /\ layouts[1].given[1].timestamp < layouts[1].given[2].timestamp
  /\ layouts[2].given = SegmentsOf(1)
  /\ Len(SegmentGroupsOf(2)) = 2
  /\ \A i \in 1..2 : SegmentsOf(2)[i].numRecords > 0

\* C14: a constructor call with a configuration that does not meet the
\* constraints (lineSegment <= 0, a negative offset, delimiterWidth or
\* labelSpacing, startOffset + endOffset >= lineSegment, or an orientation
\* that is neither vertical nor horizontal) throws and produces no layout,
\* whatever the segment list, the empty one included.
C14_InvalidConfigurationRejected ==
  [][(ConstructorCall /\ ~MeetsConstraints(configs[outcome'.config])) =>
       (outcome'.threw /\ layouts' = layouts)]_vars

\* the calls C16 is about: the constructor and the four reads
ReadsAndConstructions ==
  {"construct", "numRecords", "segments", "segmentGroups", "selectSegmentInRange"}

\* C16: a layout's segments and segmentGroups never change after its
\* construction: no numRecords, segments, segmentGroups or
\* selectSegmentInRange read, and no construction of a further layout, from
\* the same configuration object included, changes them.
C16_WrittenOnce ==
  [][outcome'.op \in ReadsAndConstructions =>
       \A l \in DOMAIN layouts :
         /\ SegmentsOf(l)' = SegmentsOf(l)
         /\ SegmentGroupsOf(l)' = SegmentGroupsOf(l)
    ]_vars

\* a second layout was constructed from the first one's configuration
\* object, and the first one, of two segments, then found a segment
C16_Witness ==
  /\ Len(layouts) = 2
  /\ layouts[1].config = layouts[2].config
  /\ outcome.op = "selectSegmentInRange"
  /\ outcome.layout = 1
  /\ outcome.returns # 0
  /\ Len(SegmentsOf(1)) = 2

\* C17: a constructor call shares no mutable state with the caller: the
\* array the configuration referred to keeps its element order, its objects
\* keep their fields (no isYear added), and the configuration object still
\* refers to that array.
C17_NoSharedState ==
  [][ConstructorCall =>
       \A c \in {outcome'.config} :
         /\ arrays'[configs[c].segments] = arrays[configs[c].segments]
         /\ \A i \in DOMAIN arrays[configs[c].segments] :
              objects'[arrays[configs[c].segments][i]] = objects[arrays[configs[c].segments][i]]
         /\ configs'[c].segments = configs[c].segments
    ]_vars

\* ---------------------------------------------------------------- properties of the position utilities
\* r lies in the range [offsetStart, totalDistance - offsetEnd] of clamp call c
InClampRange(c, r) == Leq(c.offsetStart, r) /\ Leq(r, Sub(c.totalDistance, c.offsetEnd))

\* the step is the clamp call returning
ClampReturns == call.fn = "clamp" /\ call.result = NotCalled /\ call'.result # NotCalled

\* the call changed nothing but its own result
NoSideEffects ==
  /\ call' = [call EXCEPT !.result = call'.result]
  /\ UNCHANGED <<layoutVars, callerVars, idleVars, interactionVars>>

\* C18 as claimed: for all inputs (here: all that are numbers) clamp returns
\* r with offsetStart <= r <= totalDistance - offsetEnd, r = position when
\* position is inside that range, and it has no side effects.
C18_ClampForAllInputs ==
  [][(ClampReturns /\ ~IsNaN(call.position)) =>
       /\ InClampRange(call, call'.result.returns)
       /\ InClampRange(call, call.position) => call'.result.returns = call.position
       /\ NoSideEffects
    ]_vars

\* C18: when the range is not empty (offsetStart <= totalDistance - offsetEnd)
\* and position is a number, clamp returns r with
\* offsetStart <= r <= totalDistance - offsetEnd, and r = position when
\* position is inside that range; when the range is empty it returns
\* totalDistance - offsetEnd; it has no side effects.
C18_ClampWhenRangeExists ==
  [][ClampReturns =>
       /\ (~IsNaN(call.position) /\ call.offsetStart <= call.totalDistance - call.offsetEnd) =>
            /\ InClampRange(call, call'.result.returns)
            /\ InClampRange(call, call.position) => call'.result.returns = call.position
       /\ (~IsNaN(call.position) /\ call.offsetStart > call.totalDistance - call.offsetEnd) =>
            call'.result.returns = call.totalDistance - call.offsetEnd
       /\ NoSideEffects
    ]_vars

\* a position beyond the far end was brought back to totalDistance - offsetEnd
C18_Witness ==
  /\ call.fn = "clamp"
  /\ call.result # NotCalled
  /\ call.offsetStart > 0
  /\ call.offsetEnd > 0
  /\ call.offsetStart < call.totalDistance - call.offsetEnd
  /\ ~IsNaN(call.position)
  /\ call.position > call.totalDistance - call.offsetEnd
  /\ call.result = Returns(call.totalDistance - call.offsetEnd)

\* point is a 2D coordinate: an object whose x and y are numbers
IsCoordinate(point) ==
  /\ point.kind = "object"
  /\ {"x", "y"} \subseteq DOMAIN point.props
  /\ point.props.x.kind = "number"
  /\ point.props.y.kind = "number"

\* C19: getMainAxisPosition throws OrientationError when the orientation is
\* not vertical or horizontal, whatever the point; otherwise it returns
\* point.y (vertical) or point.x (horizontal) of a 2D coordinate, the point
\* itself when it is a number, and throws OrientationError for any other point.
C19_MainAxisPosition ==
  (call.fn = "getMainAxisPosition" /\ call.result # NotCalled) =>
    IF call.orientation \notin {"vertical", "horizontal"}
    THEN call.result = OrientationError
    ELSE IF IsCoordinate(call.position)
         THEN call.result = Returns(IF call.orientation = "vertical"
                                    THEN call.position.props.y.value
                                    ELSE call.position.props.x.value)
    ELSE IF call.position.kind = "number"
         THEN call.result = Returns(call.position.value)
    ELSE call.result = OrientationError

\* an invalid orientation with a valid coordinate: the error, no value
C19_Witness ==
  /\ call.fn = "getMainAxisPosition"
  /\ call.orientation = "diagonal"
  /\ IsCoordinate(call.position)
  /\ call.result = OrientationError

\* C20: for a number value, getTranslate3d gives
\* translate3d(0px, <value>px, 0px) for vertical and
\* translate3d(<value>px, 0px, 0px) for horizontal.
C20_Translate3d ==
  (/\ call.fn = "getTranslate3d"
   /\ call.result # NotCalled
   /\ call.orientation \in {"vertical", "horizontal"}) =>
    call.result =
      Returns(IF call.orientation = "vertical"
              THEN "translate3d(0px, " \o NumberToString(call.value) \o "px, 0px)"
              ELSE "translate3d(" \o NumberToString(call.value) \o "px, 0px, 0px)")

C20_Witness ==
  /\ call.fn = "getTranslate3d"
  /\ call.orientation = "vertical"
  /\ call.value = 2
  /\ call.result = Returns("translate3d(0px, 2px, 0px)")

\* ---------------------------------------------------------------- properties of the functions
\* the step is the groupBy call returning
GroupByReturns == call.fn = "groupBy" /\ call.result = NotCalled /\ call'.result # NotCalled

\* where key k is first seen in array
FirstIndexOf(array, k) == CHOOSE i \in DOMAIN array : array[i].id = k /\ \A j \in 1..(i - 1) : array[j].id # k

\* every item of the input appears exactly once, in the list of its own key,
\* and the items of each list are in input order; the input is as it was
EachItemOnceInInputOrder(array, grouped) ==
  /\ {grouped.keys[i] : i \in DOMAIN grouped.keys} = {array[i].id : i \in DOMAIN array}
  /\ \A i, j \in DOMAIN grouped.keys : grouped.keys[i] = grouped.keys[j] => i = j
  /\ \A i \in DOMAIN grouped.keys :
       grouped.at[grouped.keys[i]] = SelectSeq(array, LAMBDA x : x.id = grouped.keys[i])
  /\ NoSideEffects

\* C21 as claimed: groupBy returns a mapping in which every input item
\* appears exactly once, in the list of its own key, in input order, the keys
\* enumerated in first-seen order, and the input array is not modified.
C21_FirstSeenKeyOrder ==
  [][GroupByReturns =>
       \A array \in {call.array}, grouped \in {call'.result.returns} :
         /\ EachItemOnceInInputOrder(array, grouped)
         /\ \A i, j \in DOMAIN grouped.keys :
              i < j => FirstIndexOf(array, grouped.keys[i]) < FirstIndexOf(array, grouped.keys[j])
    ]_vars

\* C21, amended: as claimed, but the keys are enumerated in own-property
\* order: the array-index keys (as the year "2023" is) in ascending numeric
\* order, whatever the order they were first seen in, and after them the
\* other keys in first-seen order.
C21_OwnPropertyKeyOrder ==
  [][GroupByReturns =>
       \A array \in {call.array}, grouped \in {call'.result.returns} :
         /\ EachItemOnceInInputOrder(array, grouped)
         /\ \A i, j \in DOMAIN grouped.keys :
              i < j =>
                \/ IsArrayIndex(grouped.keys[i]) /\ ~IsArrayIndex(grouped.keys[j])
                \/ /\ IsArrayIndex(grouped.keys[i]) /\ IsArrayIndex(grouped.keys[j])
                   /\ grouped.keys[i] < grouped.keys[j]
                \/ /\ ~IsArrayIndex(grouped.keys[i]) /\ ~IsArrayIndex(grouped.keys[j])
                   /\ FirstIndexOf(array, grouped.keys[i]) < FirstIndexOf(array, grouped.keys[j])
    ]_vars

\* three items grouped under two array-index keys, the larger key seen first,
\* and one list of two items
C21_Witness ==
  /\ call.fn = "groupBy"
  /\ call.result # NotCalled
  /\ Len(call.array) = 3
  /\ call.array[1].id = 1 /\ call.array[2].id = 0 /\ call.array[3].id = 1
  /\ call.array[1].value # call.array[3].value
  /\ call.result.returns.keys = <<0, 1>>
  /\ call.result.returns.at[1] = <<call.array[1], call.array[3]>>

\* the values the timeline reads from the injected ChronTimelineConfig
ProvidedGeometry(useValue) ==
  [key \in {"offsetEnd", "offsetStart", "orientation"} |-> useValue[key]]

\* C30: provideTimelineConfig(config) provides the orientation, offsetStart
\* and offsetEnd given, and the defaults only when no config is given, as
\* provideIdleManager(options) provides the inactiveAfterMs given in place of
\* the default.
C30_GivenValuesProvided ==
  /\ (call.fn = "provideTimelineConfig" /\ call.result # NotCalled) =>
       ProvidedGeometry(call.result.returns.useValue)
         = IF call.config = JsUndefined THEN TimelineDefaultOptions ELSE call.config
  /\ (call.fn = "provideIdleManager" /\ call.result # NotCalled) =>
       call.result.returns[2].useValue.inactiveAfterMs
         = IF "inactiveAfterMs" \in DOMAIN SpreadOf(call.options)
           THEN call.options.inactiveAfterMs
           ELSE DefaultInactiveAfterMs

\* ---------------------------------------------------------------- properties of the IdleManager
\* the step is onIdle emitting
EmitsOnIdle == history'.onIdle > history.onIdle

\* no activity event for inactiveAfterMs
Inactive ==
  history.lastActivity = Never \/ now - history.lastActivity >= InactiveAfterTicks

\* C22: onIdle emits once for a period of inactivity: it is not emitted again
\* until a new activity event has occurred.
C22_OncePerInactivity ==
  [][EmitsOnIdle => history.onIdle = 0]_vars

\* C23: isIdle is never true and onIdle never emits while less than
\* inactiveAfterMs has elapsed since the most recent activity event.
C23_ActiveWhileInteracting ==
  [][(EmitsOnIdle \/ idleManager'.idleState) => Inactive']_vars

\* C27: at every moment at most one inactivity timer is pending, and it is
\* the one stored in inactivityTimer.
C27_OneTimerPending ==
  /\ Len(timeouts) <= 1
  /\ \A i \in DOMAIN timeouts : timeouts[i].id = idleManager.inactivityTimer

\* ---------------------------------------------------------------- properties of the InteractionManager
\* C24: position() and cursorPos() always lie within [lowerBound,
\* upperBound] of the current configuration.
C24_WithinBounds ==
  Initialised =>
    /\ lowerBound(interactionManager) <= InteractionManager_position(interactionManager)
    /\ InteractionManager_position(interactionManager) <= upperBound(interactionManager)
    /\ lowerBound(interactionManager) <= InteractionManager_cursorPos(interactionManager)
    /\ InteractionManager_cursorPos(interactionManager) <= upperBound(interactionManager)

\* C28: once the component is destroyed, no event changes the manager's
\* position or cursor position or the component's isCursorVisible.
C28_NoChangeAfterDestroy ==
  [][(Initialised /\ timeline.destroyed) =>
       /\ InteractionManager_position(interactionManager)'
            = InteractionManager_position(interactionManager)
       /\ InteractionManager_cursorPos(interactionManager)'
            = InteractionManager_cursorPos(interactionManager)
       /\ timeline'.isCursorVisible = timeline.isCursorVisible
    ]_vars

\* the quotient q lies in [0, 1]
InUnitRange(q) == q.den > 0 /\ 0 <= q.num /\ q.num <= q.den

\* C29: positionPct() always lies within [0, 1], for every configuration
\* with offsetStart, offsetEnd >= 0 and offsetStart + offsetEnd < distance.
C29_PositionPctInRange ==
  (/\ Initialised
   /\ interactionManager.config.offsetStart >= 0
   /\ interactionManager.config.offsetEnd >= 0
   /\ totalOffset(interactionManager) < interactionManager.config.distance) =>
    InUnitRange(InteractionManager_positionPct(interactionManager))

====
